---- MODULE Spec2Model ----
(***************************************************************************)
(* A model of the steamid crate: the packed 64-bit SteamId, the            *)
(* SteamIdBuilder setters, the field value types and the multi-format      *)
(* string parser.                                                          *)
(*                                                                         *)
(* Representation.  TLC integers are 32 bits wide, so a u64 (and a u32)    *)
(* is modelled as the set of the positions of its 1 bits: 0 is {}, 1 is    *)
(* {0}, 2^64 - 1 is 0..63.  Bitwise operations are set operations, shifts  *)
(* move positions, arithmetic is done with carries on positions.  A u8 is  *)
(* a natural number in 0..255.  A string is a sequence of characters, a    *)
(* character a one-element string (a multi-byte character has a name).     *)
(***************************************************************************)
EXTENDS Integers, Sequences, FiniteSets, TLC

----------------------------------------------------------------------------
(* Bounds of the model. *)

\* A start value of the builder has at most MaxOnes bits set among EdgeBits
\* (or is the complement of such a value).
MaxOnes == 2

\* The longest chain of setter calls on one builder.
MaxCalls == 3

----------------------------------------------------------------------------
(* Machine integers. *)

Bits64 == 0 .. 63
Bits32 == 0 .. 31

SetMax(S) == CHOOSE x \in S : \A y \in S : y <= x
SetMin(S) == CHOOSE x \in S : \A y \in S : x <= y

RECURSIVE Pow2(_)
Pow2(k) == IF k = 0 THEN 1 ELSE 2 * Pow2(k - 1)

\* The bits of a natural number below 2^31.
FromNat(n) == {i \in 0 .. 30 : (n \div Pow2(i)) % 2 = 1}

\* The value of a set of bit positions below 31.
RECURSIVE ToNat(_)
ToNat(s) == IF s = {} THEN 0
            ELSE LET i == SetMax(s) IN Pow2(i) + ToNat(s \ {i})

BitAnd(a, b) == a \cap b
BitOr(a, b) == a \cup b
BitNot64(a) == Bits64 \ a
\* val << k on a u64: bits shifted past bit 63 are lost.
Shl64(a, k) == {i + k : i \in a} \cap Bits64
Shr(a, k) == {i - k : i \in {j \in a : j >= k}}
\* Unsigned comparison a < b.
ULt(a, b) == LET d == (a \ b) \cup (b \ a) IN d # {} /\ SetMax(d) \in b
ULe(a, b) == a = b \/ ULt(a, b)
\* u64 -> u32 and u64 -> u8 casts ("as u32", "as u8") truncate.
AsU32(a) == a \cap Bits32
AsU8(a) == ToNat(a \cap (0 .. 7))

\* a + b with carries, without truncation (positions may exceed 63).
RECURSIVE AddFrom(_, _, _, _)
AddFrom(a, b, i, carry) ==
  IF (\A j \in a \cup b : j < i) THEN (IF carry = 1 THEN {i} ELSE {})
  ELSE LET s == (IF i \in a THEN 1 ELSE 0) + (IF i \in b THEN 1 ELSE 0) + carry
       IN (IF s % 2 = 1 THEN {i} ELSE {}) \cup AddFrom(a, b, i + 1, s \div 2)
Add(a, b) == AddFrom(a, b, 0, 0)

----------------------------------------------------------------------------
(* Bit layout: mod.rs, mod mask and mod shift. *)

mask_AUTH_SERVER == {0}
mask_ACCOUNT_NUMBER == 1 .. 31
mask_INSTANCE == 32 .. 51
mask_ACCOUNT_TYPE == 52 .. 55
mask_UNIVERSE == 56 .. 63
mask_CHAT_TYPE == 44 .. 51

trailing_zeros(m) == IF m = {} THEN 64 ELSE SetMin(m)

shift_AUTH_SERVER == trailing_zeros(mask_AUTH_SERVER)
shift_ACCOUNT_NUMBER == trailing_zeros(mask_ACCOUNT_NUMBER)
shift_INSTANCE == trailing_zeros(mask_INSTANCE)
shift_ACCOUNT_TYPE == trailing_zeros(mask_ACCOUNT_TYPE)
shift_UNIVERSE == trailing_zeros(mask_UNIVERSE)
shift_CHAT_TYPE == trailing_zeros(mask_CHAT_TYPE)

----------------------------------------------------------------------------
(* Field value types. *)

\* chat_type.rs
ChatType == {"None", "MatchMakingLobby", "Lobby", "ClanChat"}
ChatType_default == "None"

ChatType_to_u8(chat) ==
  CASE chat = "None" -> 0
    [] chat = "MatchMakingLobby" -> 1
    [] chat = "Lobby" -> 2
    [] chat = "ClanChat" -> 4

ChatType_from_u8(v) ==
  CASE v = 1 -> "MatchMakingLobby"
    [] v = 2 -> "Lobby"
    [] v = 4 -> "ClanChat"
    [] OTHER -> "None"

ChatType_from_SteamId(id) ==
  ChatType_from_u8(AsU8(Shr(BitAnd(id, mask_CHAT_TYPE), shift_CHAT_TYPE)))

\* universe.rs
Universe == {"Unspecified", "Public", "Beta", "Internal", "Dev", "RC"}

Universe_to_u8(u) ==
  CASE u = "Unspecified" -> 0
    [] u = "Public" -> 1
    [] u = "Beta" -> 2
    [] u = "Internal" -> 3
    [] u = "Dev" -> 4
    [] u = "RC" -> 5

Universe_from_u8(v) ==
  CASE v = 1 -> "Public"
    [] v = 2 -> "Beta"
    [] v = 3 -> "Internal"
    [] v = 4 -> "Dev"
    [] v = 5 -> "RC"
    [] OTHER -> "Unspecified"

Universe_from_SteamId(id) ==
  Universe_from_u8(AsU8(Shr(BitAnd(id, mask_UNIVERSE), shift_UNIVERSE)))

\* account_type.rs: an AccountType is <<name>>, or <<"Chat", chat type>>.
AccountType ==
  {<<n>> : n \in {"Invalid", "Individual", "Multiseat", "GameServer",
                  "AnonGameServer", "Pending", "ContentServer", "Clan",
                  "ConsoleUser", "AnonUser"}}
  \cup {<<"Chat", c>> : c \in ChatType}

\* Fault: a Clan is given the letter of a GameServer.
AccountType_to_char_clan_as_G(acc) ==
  CASE acc[1] = "Invalid" -> "I"
    [] acc[1] = "Individual" -> "U"
    [] acc[1] = "Multiseat" -> "M"
    [] acc[1] = "GameServer" -> "G"
    [] acc[1] = "AnonGameServer" -> "A"
    [] acc[1] = "Pending" -> "P"
    [] acc[1] = "ContentServer" -> "C"
    [] acc[1] = "Clan" -> "G"
    [] acc[1] = "Chat" -> (CASE acc[2] = "MatchMakingLobby" -> "T"
                             [] acc[2] = "Lobby" -> "L"
                             [] acc[2] = "ClanChat" -> "c"
                             [] OTHER -> "c")
    [] acc[1] = "ConsoleUser" -> "I"
    [] acc[1] = "AnonUser" -> "a"

AccountType_to_char(acc) ==
  CASE acc[1] = "Invalid" -> "I"
    [] acc[1] = "Individual" -> "U"
    [] acc[1] = "Multiseat" -> "M"
    [] acc[1] = "GameServer" -> "G"
    [] acc[1] = "AnonGameServer" -> "A"
    [] acc[1] = "Pending" -> "P"
    [] acc[1] = "ContentServer" -> "C"
    [] acc[1] = "Clan" -> "g"
    [] acc[1] = "Chat" -> (CASE acc[2] = "MatchMakingLobby" -> "T"
                             [] acc[2] = "Lobby" -> "L"
                             [] acc[2] = "ClanChat" -> "c"
                             [] OTHER -> "c")
    [] acc[1] = "ConsoleUser" -> "I"
    [] acc[1] = "AnonUser" -> "a"

AccountType_to_u8(acc) ==
  CASE acc[1] = "Invalid" -> 0
    [] acc[1] = "Individual" -> 1
    [] acc[1] = "Multiseat" -> 2
    [] acc[1] = "GameServer" -> 3
    [] acc[1] = "AnonGameServer" -> 4
    [] acc[1] = "Pending" -> 5
    [] acc[1] = "ContentServer" -> 6
    [] acc[1] = "Clan" -> 7
    [] acc[1] = "Chat" -> 8
    [] acc[1] = "ConsoleUser" -> 9
    [] acc[1] = "AnonUser" -> 10

AccountType_from_u8(v) ==
  CASE v = 0 -> <<"Invalid">>
    [] v = 1 -> <<"Individual">>
    [] v = 2 -> <<"Multiseat">>
    [] v = 3 -> <<"GameServer">>
    [] v = 4 -> <<"AnonGameServer">>
    [] v = 5 -> <<"Pending">>
    [] v = 6 -> <<"ContentServer">>
    [] v = 7 -> <<"Clan">>
    [] v = 8 -> <<"Chat", "ClanChat">>
    [] v = 9 -> <<"ConsoleUser">>
    [] v = 10 -> <<"AnonUser">>
    [] OTHER -> <<"Invalid">>

AccountType_from_char(c) ==
  CASE c = "I" -> <<"Invalid">>
    [] c = "U" -> <<"Individual">>
    [] c = "M" -> <<"Multiseat">>
    [] c = "G" -> <<"GameServer">>
    [] c = "A" -> <<"AnonGameServer">>
    [] c = "P" -> <<"Pending">>
    [] c = "C" -> <<"ContentServer">>
    [] c = "g" -> <<"Clan">>
    [] c = "L" -> <<"Chat", "Lobby">>
    [] c = "T" -> <<"Chat", "MatchMakingLobby">>
    [] c = "c" -> <<"Chat", "ClanChat">>
    [] c = "a" -> <<"AnonUser">>
    [] OTHER -> <<"Invalid">>

AccountType_from_SteamId(id) ==
  LET account_type == Shr(BitAnd(id, mask_ACCOUNT_TYPE), shift_ACCOUNT_TYPE)
      account_typed == AccountType_from_u8(AsU8(account_type))
  IN IF account_typed[1] = "Chat"
       THEN <<"Chat", ChatType_from_SteamId(id)>>
       ELSE account_typed

\* instance.rs: an Instance is <<kind, chat type>>.
Instance == {"None", "Desktop", "Console", "Web"} \X ChatType

\* Fault: the chat type is left out of the number.
Instance_to_u32_without_chat(instance) ==
  CASE instance[1] = "None" -> FromNat(0)
    [] instance[1] = "Desktop" -> FromNat(1)
    [] instance[1] = "Console" -> FromNat(2)
    [] instance[1] = "Web" -> FromNat(4)

Instance_to_u32(instance) ==
  LET chat == Shl64(FromNat(ChatType_to_u8(instance[2])),
                    shift_CHAT_TYPE - shift_INSTANCE) \cap Bits32
  IN CASE instance[1] = "None" -> BitOr(FromNat(0), chat)
       [] instance[1] = "Desktop" -> BitOr(FromNat(1), chat)
       [] instance[1] = "Console" -> BitOr(FromNat(2), chat)
       [] instance[1] = "Web" -> BitOr(FromNat(4), chat)

\* Fault: an unknown kind defaults to Desktop with the default chat type.
Instance_from_u32_default_chat(v) ==
  LET masked == BitAnd(Shl64(v, shift_INSTANCE), mask_INSTANCE)
      chat_type ==
        ChatType_from_u8(AsU8(Shr(BitAnd(masked, mask_CHAT_TYPE), shift_CHAT_TYPE)))
      masked_chat == Shr(BitAnd(masked, BitNot64(mask_CHAT_TYPE)), shift_INSTANCE)
  IN CASE masked_chat = FromNat(0) -> <<"None", chat_type>>
       [] masked_chat = FromNat(1) -> <<"Desktop", chat_type>>
       [] masked_chat = FromNat(2) -> <<"Console", chat_type>>
       [] masked_chat = FromNat(4) -> <<"Web", chat_type>>
       [] OTHER -> <<"Desktop", ChatType_default>>

Instance_from_u32(v) ==
  LET masked == BitAnd(Shl64(v, shift_INSTANCE), mask_INSTANCE)
      chat_type ==
        ChatType_from_u8(AsU8(Shr(BitAnd(masked, mask_CHAT_TYPE), shift_CHAT_TYPE)))
      masked_chat == Shr(BitAnd(masked, BitNot64(mask_CHAT_TYPE)), shift_INSTANCE)
  IN CASE masked_chat = FromNat(0) -> <<"None", chat_type>>
       [] masked_chat = FromNat(1) -> <<"Desktop", chat_type>>
       [] masked_chat = FromNat(2) -> <<"Console", chat_type>>
       [] masked_chat = FromNat(4) -> <<"Web", chat_type>>
       [] OTHER -> <<"Desktop", chat_type>>

Instance_from_SteamId(id) ==
  Instance_from_u32(AsU32(Shr(BitAnd(id, mask_INSTANCE), shift_INSTANCE)))

----------------------------------------------------------------------------
(* steam_id.rs: SteamIdBuilder and the SteamId readers. *)

\* Faults of replace_bits: the new bits are not masked; the old bits are lost.
replace_bits_unmasked(val, mask, new) == BitOr(BitAnd(val, BitNot64(mask)), new)
replace_bits_clobber(val, mask, new) == BitAnd(new, mask)

replace_bits(val, mask, new) ==
  BitOr(BitAnd(val, BitNot64(mask)), BitAnd(new, mask))

\* val.into() of the setters' generic arguments; an argument is <<kind, value>>.
IntoInstance(a) == IF a[1] = "u32" THEN Instance_from_u32(a[2]) ELSE a[2]
IntoUniverse(a) == IF a[1] = "u8" THEN Universe_from_u8(a[2]) ELSE a[2]
IntoAccountType(a) ==
  CASE a[1] = "u8" -> AccountType_from_u8(a[2])
    [] a[1] = "char" -> AccountType_from_char(a[2])
    [] OTHER -> a[2]

SteamIdBuilder_finish(id) == id

\* Fault: the value is written without the cap to 1.
SteamIdBuilder_authentication_server_unclamped(id, val) ==
  replace_bits(id, mask_AUTH_SERVER, Shl64(val, shift_AUTH_SERVER))

SteamIdBuilder_authentication_server(id, val) ==
  LET new_val == IF ULe(FromNat(1), val) THEN FromNat(1) ELSE FromNat(0)
  IN replace_bits(id, mask_AUTH_SERVER, Shl64(new_val, shift_AUTH_SERVER))

\* Fault: the value is written without the shift to bit 1.
SteamIdBuilder_account_number_unshifted(id, val) ==
  replace_bits(id, mask_ACCOUNT_NUMBER, val)

SteamIdBuilder_account_number(id, val) ==
  replace_bits(id, mask_ACCOUNT_NUMBER, Shl64(val, shift_ACCOUNT_NUMBER))

SteamIdBuilder_account_type_preserve_bits(id, val) ==
  LET atype == IntoAccountType(val)
  IN replace_bits(id, mask_ACCOUNT_TYPE,
                  Shl64(FromNat(AccountType_to_u8(atype)), shift_ACCOUNT_TYPE))

SteamIdBuilder_instance(id, val) ==
  LET v == Instance_to_u32(IntoInstance(val))
  IN replace_bits(id, mask_INSTANCE, Shl64(v, shift_INSTANCE))

SteamIdBuilder_universe(id, val) ==
  LET v == FromNat(Universe_to_u8(IntoUniverse(val)))
  IN replace_bits(id, mask_UNIVERSE, Shl64(v, shift_UNIVERSE))

\* Faults of account_type: no effect on the instance; the instance is reset
\* for Invalid and Individual too.
SteamIdBuilder_account_type_keeps_instance(id, val) ==
  SteamIdBuilder_account_type_preserve_bits(id, val)
SteamIdBuilder_account_type_always_resets(id, val) ==
  LET atype == IntoAccountType(val)
      chat == IF atype[1] = "Chat" THEN atype[2] ELSE ChatType_default
  IN SteamIdBuilder_account_type_preserve_bits(
       SteamIdBuilder_instance(id, <<"Instance", <<"None", chat>>>>),
       <<"AccountType", atype>>)

SteamIdBuilder_account_type(id, val) ==
  LET atype == IntoAccountType(val)
      new == CASE atype[1] \in {"Invalid", "Individual"} -> id
               [] atype[1] = "Chat" ->
                    SteamIdBuilder_instance(id, <<"Instance", <<"None", atype[2]>>>>)
               [] OTHER ->
                    SteamIdBuilder_instance(id, <<"Instance", <<"None", ChatType_default>>>>)
  IN SteamIdBuilder_account_type_preserve_bits(new, <<"AccountType", atype>>)

\* Fault: the default instance is not set.
SteamIdBuilder_new_without_instance ==
  SteamIdBuilder_universe(
    SteamIdBuilder_account_type_preserve_bits({}, <<"AccountType", <<"Individual">>>>),
    <<"Universe", "Public">>)

SteamIdBuilder_new ==
  SteamIdBuilder_instance(
    SteamIdBuilder_universe(
      SteamIdBuilder_account_type({}, <<"AccountType", <<"Individual">>>>),
      <<"Universe", "Public">>),
    <<"u32", FromNat(1)>>)

SteamId_authentication_server(id) == AsU32(BitAnd(id, mask_AUTH_SERVER))

SteamId_account_number(id) ==
  AsU32(Shr(BitAnd(id, mask_ACCOUNT_NUMBER), shift_ACCOUNT_NUMBER))

SteamId_account_type(id) == AccountType_from_SteamId(id)
SteamId_instance(id) == Instance_from_SteamId(id)
SteamId_universe(id) == Universe_from_SteamId(id)

----------------------------------------------------------------------------
(* Strings, and the standard conversions the parser and formatter call. *)

Digits == {"0", "1", "2", "3", "4", "5", "6", "7", "8", "9"}
DigitVal(c) ==
  CASE c = "0" -> 0 [] c = "1" -> 1 [] c = "2" -> 2 [] c = "3" -> 3
    [] c = "4" -> 4 [] c = "5" -> 5 [] c = "6" -> 6 [] c = "7" -> 7
    [] c = "8" -> 8 [] c = "9" -> 9
DigitChar(d) == <<"0", "1", "2", "3", "4", "5", "6", "7", "8", "9">>[d + 1]

Letters ==
  {"A", "B", "C", "D", "E", "F", "G", "H", "I", "J", "K", "L", "M", "N", "O",
   "P", "Q", "R", "S", "T", "U", "V", "W", "X", "Y", "Z", "a", "b", "c", "d",
   "e", "f", "g", "h", "i", "j", "k", "l", "m", "n", "o", "p", "q", "r", "s",
   "t", "u", "v", "w", "x", "y", "z"}
Whitespace == {" ", "\t"}
\* A character outside ASCII, two bytes long in UTF-8.
EAcute == "U+00E9"
Utf8Len(c) == IF c = EAcute THEN 2 ELSE 1

RECURSIVE ByteLen(_)
ByteLen(s) == IF s = <<>> THEN 0 ELSE Utf8Len(Head(s)) + ByteLen(Tail(s))

\* str::trim
RECURSIVE TrimStart(_)
TrimStart(s) ==
  IF s # <<>> /\ Head(s) \in Whitespace THEN TrimStart(Tail(s)) ELSE s
RECURSIVE TrimEnd(_)
TrimEnd(s) ==
  IF s # <<>> /\ s[Len(s)] \in Whitespace
    THEN TrimEnd(SubSeq(s, 1, Len(s) - 1)) ELSE s
str_trim(s) == TrimEnd(TrimStart(s))

\* str::get(a..b) on byte offsets: <<slice>>, or <<>> (None) when an offset
\* is out of range or inside a character.
CharsBefore(s, off) ==
  {k \in 0 .. Len(s) : ByteLen(SubSeq(s, 1, k)) = off}
str_get(s, a, b) ==
  IF a > b \/ CharsBefore(s, a) = {} \/ CharsBefore(s, b) = {} THEN <<>>
  ELSE LET i == CHOOSE k \in CharsBefore(s, a) : TRUE
           j == CHOOSE k \in CharsBefore(s, b) : TRUE
       IN <<SubSeq(s, i + 1, j)>>
str_get_from(s, a) == str_get(s, a, ByteLen(s))

\* str::split(':'), all the fields at once (never empty).
RECURSIVE str_split(_)
str_split(s) ==
  IF \A k \in 1 .. Len(s) : s[k] # ":" THEN <<s>>
  ELSE LET k == SetMin({j \in 1 .. Len(s) : s[j] = ":"})
       IN <<SubSeq(s, 1, k - 1)>> \o str_split(SubSeq(s, k + 1, Len(s)))

\* acc * 10 and the overflow test of checked_mul / checked_add.
Mul10(a) == Add({i + 3 : i \in a}, {i + 1 : i \in a})
Overflows(a, width) == \E i \in a : i >= width

RECURSIVE ParseDigits(_, _, _)
ParseDigits(ds, acc, width) ==
  IF ds = <<>> THEN <<acc>>
  ELSE IF Head(ds) \notin Digits THEN <<>>
  ELSE LET m == Mul10(acc)
           r == Add(m, FromNat(DigitVal(Head(ds))))
       IN IF Overflows(m, width) \/ Overflows(r, width) THEN <<>>
          ELSE ParseDigits(Tail(ds), r, width)

\* <unsigned>::from_str: <<value>>, or <<>> for a ParseIntError.
ParseUInt(s, width) ==
  IF s = <<>> THEN <<>>
  ELSE IF Len(s) = 1 /\ s[1] \in {"+", "-"} THEN <<>>
  ELSE IF s[1] = "+" THEN ParseDigits(Tail(s), {}, width)
  ELSE ParseDigits(s, {}, width)

\* Display of an unsigned integer: its decimal numeral.
\* Long division by ten from bit i down: <<quotient, remainder>>.
RECURSIVE DivMod10(_, _, _, _)
DivMod10(a, i, q, r) ==
  IF i < 0 THEN <<q, r>>
  ELSE LET r2 == 2 * r + (IF i \in a THEN 1 ELSE 0)
       IN IF r2 >= 10 THEN DivMod10(a, i - 1, q \cup {i}, r2 - 10)
          ELSE DivMod10(a, i - 1, q, r2)
RECURSIVE ToDecimalDigits(_, _)
ToDecimalDigits(a, digits) ==
  IF a = {} THEN digits
  ELSE LET dm == DivMod10(a, SetMax(a), {}, 0)
       IN ToDecimalDigits(dm[1], <<DigitChar(dm[2])>> \o digits)
ToDecimal(a) == IF a = {} THEN <<"0">> ELSE ToDecimalDigits(a, <<>>)

----------------------------------------------------------------------------
(* steam_id.rs: impl FromStr for SteamIdBuilder. *)

\* Result<SteamIdBuilder, ParseError>
Ok(b) == <<"Ok", b>>
Err(e) == <<"Err", e>>
Invalid(field) == Err(<<"Invalid", field>>)
UknownFormat == Err(<<"UknownFormat">>)
TooShort == Err(<<"TooShort">>)
Empty == Err(<<"Empty">>)
\* errors.rs: enum Field and enum ParseError.  ParseError::Other(&str) is
\* constructed nowhere in the crate and is left out.
errors_Field ==
  {"AuthServer", "AccountNumber", "Instance", "AccountType", "Universe", "SteamId64"}
ParseError ==
  {UknownFormat, TooShort, Empty} \cup {Invalid(field) : field \in errors_Field}

\* Fault: the parsed number is laid over the builder's defaults.
parse_from_steamid64_over_defaults(s) ==
  LET v == ParseUInt(s, 64)
  IN IF v = <<>> THEN Invalid("SteamId64") ELSE Ok(BitOr(SteamIdBuilder_new, v[1]))

parse_from_steamid64(s) ==
  LET v == ParseUInt(s, 64)
  IN IF v = <<>> THEN Invalid("SteamId64") ELSE Ok(v[1])

\* u8::max
u8_max(a, b) == IF a >= b THEN a ELSE b

\* Fault: an authentication server of 2 or more is left to the builder's cap.
steamid2_auth_server_check_accepts(v) == <<v>>

\* The range checks of parse_from_steamid2 and parse_from_steamid3:
\* (cond).then(|| v).ok_or(Invalid(..)), <<v>> when v passes.
steamid2_auth_server_check(v) == IF ULt(v, FromNat(2)) THEN <<v>> ELSE <<>>
steamid2_account_number_check(v) == IF ULt(v, {31}) THEN <<v>> ELSE <<>>
steamid3_account_number_check(v) == IF ULe(v, Bits32) THEN <<v>> ELSE <<>>

\* Fault: the builder calls start from an all-zero builder, not from new().
steamid2_builder_from_zero(universe, auth, num) ==
  LET b1 == SteamIdBuilder_universe({}, <<"u8", u8_max(universe, 1)>>)
      b2 == SteamIdBuilder_authentication_server(b1, auth)
      b3 == SteamIdBuilder_account_number(b2, num)
  IN SteamIdBuilder_account_type(b3, <<"char", "U">>)

\* The builder calls of parse_from_steamid2 on its three parsed fields.
steamid2_builder(universe, auth, num) ==
  LET b1 == SteamIdBuilder_universe(SteamIdBuilder_new, <<"u8", u8_max(universe, 1)>>)
      b2 == SteamIdBuilder_authentication_server(b1, auth)
      b3 == SteamIdBuilder_account_number(b2, num)
  IN SteamIdBuilder_account_type(b3, <<"char", "U">>)

\* parse_from_steamid2 after the prefix: the fields of steam2, each pulled
\* from the split and validated in the order of the builder calls.
steamid2_fields(steam2) ==
  LET fields == str_split(steam2)
      universe == ParseUInt(fields[1], 8)
  IN
  IF universe = <<>> THEN Invalid("Universe") ELSE
  IF Len(fields) < 2 THEN TooShort ELSE
  LET auth == ParseUInt(fields[2], 64) IN
  IF auth = <<>> THEN Invalid("AuthServer") ELSE
  IF steamid2_auth_server_check(auth[1]) = <<>> THEN Invalid("AuthServer") ELSE
  IF Len(fields) < 3 THEN TooShort ELSE
  LET num == ParseUInt(fields[3], 64) IN
  IF num = <<>> THEN Invalid("AccountNumber") ELSE
  IF steamid2_account_number_check(num[1]) = <<>> THEN Invalid("AccountNumber") ELSE
  Ok(steamid2_builder(ToNat(universe[1]),
                      steamid2_auth_server_check(auth[1])[1],
                      steamid2_account_number_check(num[1])[1]))

\* The thread panics: no Result is returned.
Panic == <<"Panic">>

\* Fault: the prefix is cut off by indexing, &s[6..], which panics where
\* s.get(6..) is None.
parse_from_steamid2_indexing(s) ==
  LET steam2 == str_get_from(s, 6) IN
  IF steam2 = <<>> THEN Panic ELSE steamid2_fields(steam2[1])

parse_from_steamid2(s) ==
  LET steam2 == str_get_from(s, 6) IN
  IF steam2 = <<>> THEN UknownFormat ELSE steamid2_fields(steam2[1])

\* Fault: any single character is taken as an account type.
steamid3_account_type_check_any_char(acc_type) ==
  IF Len(acc_type) # 1 THEN <<>> ELSE <<acc_type[1]>>

\* char::from_str(acc_type) and the is_ascii_alphabetic test: <<c>> when the
\* field is one ASCII letter c.
steamid3_account_type_check(acc_type) ==
  IF Len(acc_type) # 1 THEN <<>>
  ELSE IF acc_type[1] \notin Letters THEN <<>>
  ELSE <<acc_type[1]>>

\* Fault: the packed field is used as the account number without the shift.
steamid3_builder_unshifted(acc_type, universe, packed) ==
  SteamIdBuilder_account_type(
    SteamIdBuilder_account_number(
      SteamIdBuilder_authentication_server(
        SteamIdBuilder_universe(SteamIdBuilder_new, <<"u8", universe>>),
        BitAnd(packed, mask_AUTH_SERVER)),
      packed),
    <<"char", acc_type>>)

\* The builder calls of parse_from_steamid3 on its parsed fields; packed is
\* the third field, parsed once for each of the two setters.
steamid3_builder(acc_type, universe, packed) ==
  LET b1 == SteamIdBuilder_universe(SteamIdBuilder_new, <<"u8", universe>>)
      b2 == SteamIdBuilder_authentication_server(b1, BitAnd(packed, mask_AUTH_SERVER))
      b3 == SteamIdBuilder_account_number(b2, Shr(packed, shift_ACCOUNT_NUMBER))
  IN SteamIdBuilder_account_type(b3, <<"char", acc_type>>)

parse_from_steamid3(s) ==
  IF s = <<>> THEN TooShort ELSE
  IF s[Len(s)] # "]" THEN UknownFormat ELSE
  LET steam3 == str_get(s, 1, ByteLen(s) - 1) IN
  IF steam3 = <<>> THEN UknownFormat ELSE
  LET fields == str_split(steam3[1]) IN
  IF Len(fields) < 3 THEN TooShort ELSE
  LET acc_type == fields[1]
      universe == ParseUInt(fields[2], 8)
      auth_server == ParseUInt(fields[3], 64)
  IN
  IF universe = <<>> THEN Invalid("Universe") ELSE
  IF auth_server = <<>> THEN Invalid("AuthServer") ELSE
  IF steamid3_account_number_check(auth_server[1]) = <<>>
    THEN Invalid("AccountNumber") ELSE
  IF steamid3_account_type_check(acc_type) = <<>>
    THEN Invalid("AccountType") ELSE
  Ok(steamid3_builder(steamid3_account_type_check(acc_type)[1],
                      ToNat(universe[1]), auth_server[1]))

\* Fault: the input is not trimmed before it is measured and dispatched.
SteamIdBuilder_from_str_untrimmed(str) ==
  IF ByteLen(str) > 32 THEN UknownFormat
  ELSE IF str = <<>> THEN Empty
  ELSE IF str[1] \in Digits THEN parse_from_steamid64(str)
  ELSE IF str[1] = "S" THEN parse_from_steamid2(str)
  ELSE IF str[1] = "[" THEN parse_from_steamid3(str)
  ELSE UknownFormat

SteamIdBuilder_from_str(str) ==
  LET s == str_trim(str) IN
  IF ByteLen(s) > 32 THEN UknownFormat
  ELSE IF s = <<>> THEN Empty
  ELSE IF s[1] \in Digits THEN parse_from_steamid64(s)
  ELSE IF s[1] = "S" THEN parse_from_steamid2(s)
  ELSE IF s[1] = "[" THEN parse_from_steamid3(s)
  ELSE UknownFormat

----------------------------------------------------------------------------
(* steam_id.rs: impl Display for IdFormat. *)

STEAM_ == <<"S", "T", "E", "A", "M", "_">>

PROFILE_URL ==
  <<"h", "t", "t", "p", ":", "/", "/", "s", "t", "e", "a", "m", "c", "o", "m", "m", "u", "n", "i", "t", "y", ".", "c", "o", "m", "/", "p", "r", "o", "f", "i", "l", "e", "s", "/">>
GROUP_URL ==
  <<"h", "t", "t", "p", ":", "/", "/", "s", "t", "e", "a", "m", "c", "o", "m", "m", "u", "n", "i", "t", "y", ".", "c", "o", "m", "/", "g", "i", "d", "/">>

\* Display of a u8 and of a u32: the decimal numeral.
u8_to_string(n) == ToDecimal(FromNat(n))

IdFormat == {"SteamId64", "SteamId2", "SteamId2Legacy", "SteamId3", "Url"}

IdFormat_SteamId64(v) == ToDecimal(v)

\* Fault: the universe is printed from the raw field, not decoded first.
IdFormat_SteamId2_raw_universe(v) ==
  STEAM_ \o ToDecimal(Shr(BitAnd(v, mask_UNIVERSE), shift_UNIVERSE)) \o <<":">>
    \o ToDecimal(SteamId_authentication_server(v)) \o <<":">>
    \o ToDecimal(SteamId_account_number(v))

IdFormat_SteamId2(v) ==
  STEAM_ \o u8_to_string(Universe_to_u8(SteamId_universe(v))) \o <<":">>
    \o ToDecimal(SteamId_authentication_server(v)) \o <<":">>
    \o ToDecimal(SteamId_account_number(v))

IdFormat_SteamId2Legacy(v) ==
  STEAM_ \o u8_to_string(0) \o <<":">>
    \o ToDecimal(SteamId_authentication_server(v)) \o <<":">>
    \o ToDecimal(SteamId_account_number(v))

\* Fault: the third field is the account number alone.
IdFormat_SteamId3_number_only(v) ==
  <<"[">> \o <<AccountType_to_char(AccountType_from_SteamId(v))>> \o <<":">>
    \o u8_to_string(Universe_to_u8(SteamId_universe(v))) \o <<":">>
    \o ToDecimal(SteamId_account_number(v))
    \o <<"]">>

IdFormat_SteamId3(v) ==
  <<"[">> \o <<AccountType_to_char(AccountType_from_SteamId(v))>> \o <<":">>
    \o u8_to_string(Universe_to_u8(SteamId_universe(v))) \o <<":">>
    \o ToDecimal(BitAnd(v, BitOr(mask_AUTH_SERVER, mask_ACCOUNT_NUMBER)))
    \o <<"]">>

\* Fault: every account type gets the profile address.
IdFormat_Url_profile_only(v) == PROFILE_URL \o ToDecimal(v)

IdFormat_Url(v) ==
  IF SteamId_account_type(v) = <<"Clan">>
    THEN GROUP_URL \o IdFormat_SteamId3(v)
    ELSE PROFILE_URL \o ToDecimal(v)

\* IdFormat::X(&v).to_string()
IdFormat_to_string(fmt, v) ==
  CASE fmt = "SteamId64" -> IdFormat_SteamId64(v)
    [] fmt = "SteamId2" -> IdFormat_SteamId2(v)
    [] fmt = "SteamId2Legacy" -> IdFormat_SteamId2Legacy(v)
    [] fmt = "SteamId3" -> IdFormat_SteamId3(v)
    [] fmt = "Url" -> IdFormat_Url(v)

----------------------------------------------------------------------------
(* The builder as a state machine: a builder value and the calls on it. *)

VARIABLES
  id,       \* SteamIdBuilder.id, the builder's packed value
  before,   \* the builder's value before the last call
  op,       \* the last call: "from", "new" or the name of a setter
  arg,      \* the argument of the last call, <<kind, value>>
  calls,    \* the number of setter calls made on this builder
  authSet,  \* <<v>> once authentication_server(v) was called, else <<>>
  numSet,   \* <<v>> once account_number(v) was called, else <<>>
  input,    \* the string handed to from_str
  result    \* the Result of from_str, <<>> before the call

builderVars == <<id, before, op, arg, calls, authSet, numSet>>
parseVars == <<input, result>>
vars == <<id, before, op, arg, calls, authSet, numSet, input, result>>

\* Bit positions at the edges of the five fields and of the chat type.
EdgeBits == {0, 1, 31, 32, 34, 43, 44, 51, 52, 55, 56, 63}

\* Builder values to start from: SteamIdBuilder::from(&SteamId::from(x)).
StartIds ==
  LET few == {s \in SUBSET EdgeBits : Cardinality(s) <= MaxOnes}
  IN few \cup {BitNot64(s) : s \in few}

\* 0, 1, 2, 5, 15344052, 2^31 - 1, 2^31, 2^31 + 5, 2^63, 2^63 + 2,
\* 2^63 + 2^31 - 1, 2^64 - 1.
U64Args ==
  {{}, {0}, {1}, {0, 2}, FromNat(15344052), 0 .. 30, {31}, {0, 2, 31}, {63},
   {1, 63}, (0 .. 30) \cup {63}, Bits64}

\* 1, 3, 4, 3 * 4096, 16384, 2^20 + 4, 2^32 - 1
U32Args == {{0}, {0, 1}, {2}, {12, 13}, {14}, {2, 20}, Bits32}

InstanceArgs ==
  {<<"Instance", i>> : i \in Instance} \cup {<<"u32", v>> : v \in U32Args}
UniverseArgs ==
  {<<"Universe", u>> : u \in Universe} \cup {<<"u8", n>> : n \in {0, 1, 5, 6, 255}}
AccountTypeArgs ==
  {<<"AccountType", t>> : t \in AccountType}
  \cup {<<"u8", n>> : n \in {8, 9, 11, 255}}
  \cup {<<"char", c>> : c \in {"U", "I", "A", "g", "L", "T", "c", "Z"}}

\* The smaller argument sets of the chains of calls.
ChainStartIds == {{}, Bits64, {0, 3, 33, 44, 53, 57}}
ChainU64Args == {{}, {0}, {1}, FromNat(15344052), 0 .. 30, {0, 2, 31}, Bits64}
ChainInstanceArgs ==
  {<<"Instance", <<"Web", "None">>>>, <<"Instance", <<"Console", "Lobby">>>>,
   <<"u32", {0, 1}>>}
ChainUniverseArgs == {<<"Universe", "Unspecified">>, <<"Universe", "RC">>, <<"u8", 255>>}
ChainAccountTypeArgs ==
  {<<"AccountType", <<"Invalid">>>>, <<"AccountType", <<"Clan">>>>,
   <<"AccountType", <<"Chat", "Lobby">>>>, <<"char", "U">>, <<"u8", 10>>}

InitBuilder(Starts) ==
  /\ id \in Starts
  /\ before = id
  /\ op = "from"
  /\ arg = <<"none">>
  /\ calls = 0
  /\ authSet = <<>>
  /\ numSet = <<>>

InitParseIdle ==
  /\ input = <<>>
  /\ result = <<>>

\* SteamIdBuilder::new() instead of a builder made from a SteamId.
New ==
  /\ op = "from"
  /\ id' = SteamIdBuilder_new
  /\ before' = {}
  /\ op' = "new"
  /\ arg' = <<"none">>
  /\ UNCHANGED <<calls, authSet, numSet, parseVars>>

AuthenticationServer(Vals, Limit) ==
  \E v \in Vals :
    /\ calls < Limit
    /\ id' = SteamIdBuilder_authentication_server(id, v)
    /\ before' = id
    /\ op' = "authentication_server"
    /\ arg' = <<"u64", v>>
    /\ calls' = calls + 1
    /\ authSet' = <<v>>
    /\ UNCHANGED <<numSet, parseVars>>

AccountNumber(Vals, Limit) ==
  \E v \in Vals :
    /\ calls < Limit
    /\ id' = SteamIdBuilder_account_number(id, v)
    /\ before' = id
    /\ op' = "account_number"
    /\ arg' = <<"u64", v>>
    /\ calls' = calls + 1
    /\ numSet' = <<v>>
    /\ UNCHANGED <<authSet, parseVars>>

SetAccountType(Vals, Limit) ==
  \E v \in Vals :
    /\ calls < Limit
    /\ id' = SteamIdBuilder_account_type(id, v)
    /\ before' = id
    /\ op' = "account_type"
    /\ arg' = v
    /\ calls' = calls + 1
    /\ UNCHANGED <<authSet, numSet, parseVars>>

AccountTypePreserveBits(Vals, Limit) ==
  \E v \in Vals :
    /\ calls < Limit
    /\ id' = SteamIdBuilder_account_type_preserve_bits(id, v)
    /\ before' = id
    /\ op' = "account_type_preserve_bits"
    /\ arg' = v
    /\ calls' = calls + 1
    /\ UNCHANGED <<authSet, numSet, parseVars>>

SetInstance(Vals, Limit) ==
  \E v \in Vals :
    /\ calls < Limit
    /\ id' = SteamIdBuilder_instance(id, v)
    /\ before' = id
    /\ op' = "instance"
    /\ arg' = v
    /\ calls' = calls + 1
    /\ UNCHANGED <<authSet, numSet, parseVars>>

SetUniverse(Vals, Limit) ==
  \E v \in Vals :
    /\ calls < Limit
    /\ id' = SteamIdBuilder_universe(id, v)
    /\ before' = id
    /\ op' = "universe"
    /\ arg' = v
    /\ calls' = calls + 1
    /\ UNCHANGED <<authSet, numSet, parseVars>>

\* One setter call on any builder value.
Init == InitBuilder(StartIds) /\ InitParseIdle

Next ==
  \/ New
  \/ AuthenticationServer(U64Args, 1)
  \/ AccountNumber(U64Args, 1)
  \/ SetAccountType(AccountTypeArgs, 1)
  \/ AccountTypePreserveBits(AccountTypeArgs, 1)
  \/ SetInstance(InstanceArgs, 1)
  \/ SetUniverse(UniverseArgs, 1)

Spec == Init /\ [][Next]_vars

\* Chains of at most MaxCalls setter calls.
InitChain == InitBuilder(ChainStartIds) /\ InitParseIdle

NextChain ==
  \/ New
  \/ AuthenticationServer(ChainU64Args, MaxCalls)
  \/ AccountNumber(ChainU64Args, MaxCalls)
  \/ SetAccountType(ChainAccountTypeArgs, MaxCalls)
  \/ AccountTypePreserveBits(ChainAccountTypeArgs, MaxCalls)
  \/ SetInstance(ChainInstanceArgs, MaxCalls)
  \/ SetUniverse(ChainUniverseArgs, MaxCalls)

SpecChain == InitChain /\ [][NextChain]_vars

\* Chains of at most MaxCalls setter calls on SteamIdBuilder::new(), with
\* arguments in and out of the fields' ranges.
InitFromNew ==
  /\ id = SteamIdBuilder_new
  /\ before = {}
  /\ op = "new"
  /\ arg = <<"none">>
  /\ calls = 0
  /\ authSet = <<>>
  /\ numSet = <<>>
  /\ InitParseIdle

NextFromNew ==
  \/ AuthenticationServer({{0}, FromNat(15344052), Bits64}, MaxCalls)
  \/ AccountNumber({{0}, FromNat(15344052), Bits64}, MaxCalls)
  \/ SetAccountType({<<"AccountType", <<"Chat", "MatchMakingLobby">>>>,
                     <<"u8", 9>>, <<"u8", 255>>, <<"char", "g">>}, MaxCalls)
  \/ AccountTypePreserveBits({<<"AccountType", <<"Chat", "MatchMakingLobby">>>>,
                              <<"u8", 9>>, <<"u8", 255>>, <<"char", "g">>}, MaxCalls)
  \/ SetInstance({<<"Instance", <<"Web", "Lobby">>>>, <<"u32", {0, 1}>>,
                  <<"u32", {12, 13}>>, <<"u32", Bits32>>}, MaxCalls)
  \/ SetUniverse({<<"Universe", "RC">>, <<"u8", 6>>, <<"u8", 255>>}, MaxCalls)

SpecFromNew == InitFromNew /\ [][NextFromNew]_vars

\* One setter call, with every argument, on a few builder values: all bits
\* clear, all set, a mixed pattern and its complement, and new().
InitPair ==
  /\ InitBuilder(ChainStartIds
                 \cup {BitNot64({0, 3, 33, 44, 53, 57}), SteamIdBuilder_new})
  /\ InitParseIdle

NextPair ==
  \/ AuthenticationServer(U64Args, 1)
  \/ AccountNumber(U64Args, 1)
  \/ SetAccountType(AccountTypeArgs, 1)
  \/ AccountTypePreserveBits(AccountTypeArgs, 1)
  \/ SetInstance(InstanceArgs, 1)
  \/ SetUniverse(UniverseArgs, 1)

SpecPair == InitPair /\ [][NextPair]_vars

----------------------------------------------------------------------------
(* The parser as a state machine: one string, one call of from_str. *)

\* Spaces around an input: at most MaxPad on each side.
MaxPad == 1

Steam2Str(u, a, n) == STEAM_ \o u \o <<":">> \o a \o <<":">> \o n
Steam3Str(c, u, p) == <<"[">> \o c \o <<":">> \o u \o <<":">> \o p \o <<"]">>

\* 76561197960265728, the value of SteamIdBuilder::new()
DefaultIdDecimal == <<"7", "6", "5", "6", "1", "1", "9", "7", "9", "6", "0", "2", "6", "5", "7", "2", "8">>
\* 0, 1, 15344052, 485059260, 2^31 - 1
AccountNumbers == {{}, {0}, FromNat(15344052), FromNat(485059260), 0 .. 30}
AuthServers == {{}, {0}}

\* 2n + a and 76561197960265728 + 2n + a
Packed(a, n) == Add(Shl64(n, 1), a)
Id64Of(a, n) == Add(ParseUInt(DefaultIdDecimal, 64)[1], Packed(a, n))

\* The four spellings of the individual account (a, n) in the public universe.
Spellings(a, n) ==
  {Steam2Str(<<"1">>, ToDecimal(a), ToDecimal(n)),
   Steam2Str(<<"0">>, ToDecimal(a), ToDecimal(n)),
   Steam3Str(<<"U">>, <<"1">>, ToDecimal(Packed(a, n))),
   ToDecimal(Id64Of(a, n))}

\* Universe, authentication server and account number fields of SteamId2
\* inputs: in range, out of range, malformed, and too long for the 32 bytes.
Steam2Universes ==
  {<<"0">>, <<"1">>, <<"5">>, <<"6">>, <<"2", "5", "5">>, <<"0", "0", "7">>, <<"+", "1">>,
   <<"2", "5", "6">>, <<"x">>}
Steam2AuthServers ==
  {<<"0">>, <<"1">>, <<"+", "1">>, <<"2">>, <<"9">>,
   <<"1", "8", "4", "4", "6", "7", "4", "4", "0", "7", "3", "7", "0", "9", "5", "5", "1", "6", "1", "6">>,
   <<"0", "0", "0", "0", "0", "0", "0", "0", "0", "0", "0", "0", "0", "0", "0", "0", "0", "0", "0", "0", "0", "0", "0", "0", "2">>,
   <<>>, <<"x">>}
Steam2AccountNumbers ==
  {ToDecimal(n) : n \in AccountNumbers}
  \cup
  {<<"2", "1", "4", "7", "4", "8", "3", "6", "4", "8">>,
   <<"1", "8", "4", "4", "6", "7", "4", "4", "0", "7", "3", "7", "0", "9", "5", "5", "1", "6", "1", "6">>,
   <<"0", "0", "0", "0", "0", "0", "0", "0", "0", "0", "0", "0", "0", "0", "0", "0", "0", "0", "0", "0", "2", "1", "4", "7", "4", "8", "3", "6", "4", "8">>,
   <<"0", "0", "0", "0", "0", "0", "0", "0", "0", "0", "0", "0", "0", "0", "0", "0", "0", "0", "0", "0", "0", "0", "0", "0", "1">>,
   <<>>, <<"x">>}

Steam3AccountTypes ==
  {<<"U">>, <<"g">>, <<"c">>, <<"Z">>, <<"0">>, <<>>, <<"I">>, <<"U", "U">>, <<"*">>}
Steam3Universes == {<<"0">>, <<"1">>, <<"6">>, <<"256">>}
Steam3Packed ==
  {ToDecimal(Packed(a, n)) : a \in AuthServers, n \in AccountNumbers}
  \cup
  {<<"2">>, <<"3">>, <<"4", "2", "9", "4", "9", "6", "7", "2", "9", "5">>,
   <<"4", "2", "9", "4", "9", "6", "7", "2", "9", "6">>,
   <<"1", "8", "4", "4", "6", "7", "4", "4", "0", "7", "3", "7", "0", "9", "5", "5", "1", "6", "1", "6">>,
   <<"x">>}

OtherInputs ==
  {<<>>, <<"0">>,
   <<"1", "8", "4", "4", "6", "7", "4", "4", "0", "7", "3", "7", "0", "9", "5", "5", "1", "6", "1", "5">>,
   <<"1", "8", "4", "4", "6", "7", "4", "4", "0", "7", "3", "7", "0", "9", "5", "5", "1", "6", "1", "6">>,
   <<"0", "0", "0", "0", "0", "0", "0", "0", "0", "0", "0", "0", "0", "0", "0", "0", "0", "0", "0", "0", "0", "0", "0", "0", "0", "0", "0", "0", "0", "0", "0", "0", "1">>,
   <<"-", "1">>, <<"1", "x">>, <<"S">>, <<"S", "T", "E", "A", "M", "_">>,
   <<"S", "T", "E", "A", "M", "_", "1">>,
   <<"S", "T", "E", "A", "M", "_", "1", ":", "1">>,
   <<"S", "T", "E", "A", "M", "_", "1", ":", "1", ":", "1", ":", "9">>,
   <<"S", "X", "X", "X", "X", "X", "1", ":", "1", ":", "1">>, <<"[">>,
   <<"[", "]">>, <<"[", "U", ":", "]">>, <<"[", "U", ":", ":", "]">>,
   <<"[", ":", ":", "]">>, <<"G", ":", "1", ":", "3">>,
   <<"[", "G", ":", "1", ":", "3">>,
   <<"[", "U", ":", "1", ":", "3", ":", "4", "]">>,
   <<"S", "T", "E", "A", "M", EAcute, "1", ":", "1", ":", "1">>,
   <<"[", EAcute, ":", "1", ":", "3", "]">>,
   <<"[", "U", "U", "U", "U", "U", "U", "U", "U", "U", "U", "U", "U", "U", "U", "U", "U", "U", "U", "U", "U", "U", "U", "U", "U", "U", "U", "U", "U", ":", "1", ":", "3", "]">>,
   <<"0", "0", "0", "0", "0", "0", "0", "0", "0", "0", "0", "0", "0", "0", "0", "7", "6", "5", "6", "1", "1", "9", "7", "9", "6", "0", "2", "6", "5", "7", "2", "8">>,
   <<"\t", "7", "6", "5", "6", "1", "1", "9", "7", "9", "6", "0", "2", "6", "5", "7", "2", "8", " ", "\t">>,
   <<"S", EAcute, EAcute, EAcute>>, <<"S", "T", "E", "A", "M", "_", EAcute>>,
   <<"S", "T", "E", "A", "M">>, <<"[", EAcute>>, <<"[", EAcute, "]">>,
   <<"\t">>, <<"0", "x", "1", "0">>, <<"1", " ", "2">>, <<"7", EAcute>>,
   <<EAcute>>}

\* "[c:1:3]" for every ASCII letter c.
Steam3Letters == {Steam3Str(<<c>>, <<"1">>, <<"3">>) : c \in Letters}

BaseInputs ==
  {Steam2Str(u, a, n) :
     u \in Steam2Universes, a \in Steam2AuthServers, n \in Steam2AccountNumbers}
  \cup {Steam3Str(c, u, p) :
          c \in Steam3AccountTypes, u \in Steam3Universes, p \in Steam3Packed}
  \cup {ToDecimal(Id64Of(a, n)) : a \in AuthServers, n \in AccountNumbers}
  \cup Steam3Letters
  \cup OtherInputs

Pad(k) == [i \in 1 .. k |-> " "]
Inputs == {Pad(i) \o s \o Pad(j) : s \in BaseInputs, i \in 0 .. MaxPad, j \in 0 .. MaxPad}

IsOk(r) == r # <<>> /\ r[1] = "Ok"

\* SteamIdBuilder::from_str(input); the builder is the parsed one on success.
FromStr ==
  /\ result = <<>>
  /\ result' = SteamIdBuilder_from_str(input)
  /\ id' = IF IsOk(result') THEN result'[2] ELSE id
  /\ before' = id
  /\ op' = "from_str"
  /\ UNCHANGED <<arg, calls, authSet, numSet, input>>

InitParse ==
  /\ input \in Inputs
  /\ result = <<>>
  /\ id = {}
  /\ before = {}
  /\ op = "none"
  /\ arg = <<"none">>
  /\ calls = 0
  /\ authSet = <<>>
  /\ numSet = <<>>

NextParse == FromStr

SpecParse == InitParse /\ [][NextParse]_vars

----------------------------------------------------------------------------
(* The formatter as a state machine: an identifier is rendered in one of *)
(* the five formats and the rendering is handed back to from_str.        *)

\* 76561197990953833, 76561198930384249, 103582791464489035 (a Clan),
\* 85568392923371047 (a GameServer), 108156759836037195 (a clan chat)
FormatIds ==
  StartIds
  \cup
  {ParseUInt(<<"7", "6", "5", "6", "1", "1", "9", "7", "9", "9", "0", "9", "5", "3", "8", "3", "3">>, 64)[1],
   ParseUInt(<<"7", "6", "5", "6", "1", "1", "9", "8", "9", "3", "0", "3", "8", "4", "2", "4", "9">>, 64)[1],
   ParseUInt(<<"1", "0", "3", "5", "8", "2", "7", "9", "1", "4", "6", "4", "4", "8", "9", "0", "3", "5">>, 64)[1],
   ParseUInt(<<"8", "5", "5", "6", "8", "3", "9", "2", "9", "2", "3", "3", "7", "1", "0", "4", "7">>, 64)[1],
   ParseUInt(<<"1", "0", "8", "1", "5", "6", "7", "5", "9", "8", "3", "6", "0", "3", "7", "1", "9", "5">>, 64)[1]}
  \cup  \* every value of the 4-bit account type field, on three bit patterns
  {BitOr(Shl64(FromNat(t), shift_ACCOUNT_TYPE), rest) :
     t \in 0 .. 15, rest \in {{}, {0, 2, 32, 56}, Bits64 \ mask_ACCOUNT_TYPE}}

InitFormat ==
  /\ id \in FormatIds
  /\ before = id
  /\ op = "from"
  /\ arg = <<"none">>
  /\ calls = 0
  /\ authSet = <<>>
  /\ numSet = <<>>
  /\ InitParseIdle

\* IdFormat::fmt(&SteamId::from(id)).to_string()
Display ==
  \E fmt \in IdFormat :
    /\ op = "from"
    /\ input' = IdFormat_to_string(fmt, SteamIdBuilder_finish(id))
    /\ op' = "fmt"
    /\ arg' = <<"IdFormat", fmt>>
    /\ UNCHANGED <<id, before, calls, authSet, numSet, result>>

\* SteamIdBuilder::from_str of the rendering.
ParseRendering == op = "fmt" /\ FromStr

NextFormat == Display \/ ParseRendering

SpecFormat == InitFormat /\ [][NextFormat]_vars

----------------------------------------------------------------------------
(* The field value types as a state machine: a value, or a number, and the *)
(* conversions applied to it one after the other.                          *)

\* The values of the four field types, <<type, value>>.
TypedValues ==
  {<<"Universe", u>> : u \in Universe}
  \cup {<<"ChatType", c>> : c \in ChatType}
  \cup {<<"Instance", i>> : i \in Instance}
  \cup {<<"AccountType", t>> : t \in AccountType}

\* u32 arguments of Instance::from: kinds 0..8, 2048 and 4095 in bits 0..11,
\* chat types 0..5, 8, 128 and 255 in bits 12..19, bits 20..31 clear or set.
\* u8 arguments of AccountType::from: 0..255.
ValueInputs ==
  TypedValues
  \cup {<<"u32", BitOr(BitOr(FromNat(k), Shl64(FromNat(c), 12)), high)>> :
          k \in (0 .. 8) \cup {2048, 4095},
          c \in (0 .. 5) \cup {8, 128, 255},
          high \in {{}, 20 .. 31}}
  \cup {<<"u8", n>> : n \in 0 .. 255}

\* u8::from(x) / u32::from(x), as a machine integer
to_numeric(val) ==
  CASE val[1] = "Universe" -> FromNat(Universe_to_u8(val[2]))
    [] val[1] = "ChatType" -> FromNat(ChatType_to_u8(val[2]))
    [] val[1] = "Instance" -> Instance_to_u32(val[2])
    [] val[1] = "AccountType" -> FromNat(AccountType_to_u8(val[2]))

\* T::from(number)
from_numeric(type, v) ==
  CASE type = "Universe" -> Universe_from_u8(ToNat(v))
    [] type = "ChatType" -> ChatType_from_u8(ToNat(v))
    [] type = "Instance" -> Instance_from_u32(v)
    [] type = "AccountType" -> AccountType_from_u8(ToNat(v))

InitValues ==
  /\ arg \in ValueInputs
  /\ op = "value"
  /\ id = {}
  /\ before = {}
  /\ calls = 0
  /\ authSet = <<>>
  /\ numSet = <<>>
  /\ InitParseIdle

\* u8::from(x) or u32::from(x) of a typed value x
ToNumeric ==
  /\ op = "value"
  /\ arg \in TypedValues
  /\ id' = to_numeric(arg)
  /\ op' = "to_numeric"
  /\ UNCHANGED <<before, arg, calls, authSet, numSet, parseVars>>

\* T::from of that number
FromNumeric ==
  /\ op = "to_numeric"
  /\ result' = <<arg[1], from_numeric(arg[1], id)>>
  /\ op' = "from_numeric"
  /\ UNCHANGED <<id, before, arg, calls, authSet, numSet, input>>

\* Instance::from(v) of a u32
InstanceFromU32 ==
  /\ op = "value"
  /\ arg[1] = "u32"
  /\ result' = <<"Instance", Instance_from_u32(arg[2])>>
  /\ op' = "Instance_from"
  /\ UNCHANGED <<id, before, arg, calls, authSet, numSet, input>>

\* AccountType::from(n) of a u8
AccountTypeFromU8 ==
  /\ op = "value"
  /\ arg[1] = "u8"
  /\ result' = <<"AccountType", AccountType_from_u8(arg[2])>>
  /\ op' = "AccountType_from"
  /\ UNCHANGED <<id, before, arg, calls, authSet, numSet, input>>

\* char::from(t) of an account type: a given one, or the one just decoded
ToChar ==
  /\ \/ op = "value" /\ arg[1] = "AccountType"
     \/ op = "AccountType_from"
  /\ input' = <<AccountType_to_char(IF op = "value" THEN arg[2] ELSE result[2])>>
  /\ op' = "to_char"
  /\ UNCHANGED <<id, before, arg, calls, authSet, numSet, result>>

\* AccountType::from(c) of that character
FromChar ==
  /\ op = "to_char"
  /\ result' = <<"AccountType", AccountType_from_char(input[1])>>
  /\ op' = "from_char"
  /\ UNCHANGED <<id, before, arg, calls, authSet, numSet, input>>

\* u8::from(t) of the account type read from the character
Numeric ==
  /\ op = "from_char"
  /\ id' = FromNat(AccountType_to_u8(result[2]))
  /\ op' = "numeric"
  /\ UNCHANGED <<before, arg, calls, authSet, numSet, parseVars>>

NextValues ==
  \/ ToNumeric
  \/ FromNumeric
  \/ InstanceFromU32
  \/ AccountTypeFromU8
  \/ ToChar
  \/ FromChar
  \/ Numeric

SpecValues == InitValues /\ [][NextValues]_vars

----------------------------------------------------------------------------
(* Properties of the builder's setters. *)

\* Bits lo..hi of x, as a number; and x without those bits.
Field(x, lo, hi) == {i - lo : i \in x \cap (lo .. hi)}
Outside(x, lo, hi) == x \ (lo .. hi)
FramedBy(lo, hi) == Outside(id, lo, hi) = Outside(before, lo, hi)

\* C1: each of the setters authentication_server, account_number, instance,
\* universe and account_type_preserve_bits leaves every bit outside its own
\* field (bit 0; bits 1..31; 32..51; 56..63; 52..55) as it was, whatever the
\* builder value and whatever high bits the argument has.
C1_SettersKeepOtherFields ==
  /\ op = "authentication_server" => FramedBy(0, 0)
  /\ op = "account_number" => FramedBy(1, 31)
  /\ op = "instance" => FramedBy(32, 51)
  /\ op = "universe" => FramedBy(56, 63)
  /\ op = "account_type_preserve_bits" => FramedBy(52, 55)

\* account_number was called with bits above bit 30 on a builder that has
\* none of the instance bits set, and it changed the account number.
C1_Witness ==
  /\ op = "account_number"
  /\ arg[2] \cap (31 .. 63) # {}
  /\ Field(before, 32, 51) = {}
  /\ id # before

C4_DefaultIdentity ==
  op = "new" =>
    LET sid == SteamIdBuilder_finish(id) IN
    /\ ToDecimal(sid) = DefaultIdDecimal
    /\ SteamId_account_type(sid) = <<"Individual">>
    /\ Field(sid, 52, 55) = FromNat(1)
    /\ SteamId_universe(sid) = "Public"
    /\ Field(sid, 56, 63) = FromNat(1)
    /\ SteamId_instance(sid) = <<"Desktop", "None">>
    /\ Field(sid, 32, 51) = FromNat(1)
    /\ SteamId_authentication_server(sid) = {}
    /\ SteamId_account_number(sid) = {}

\* new() has been called and the builder holds its default value.
C4_Witness == op = "new" /\ before = {} /\ id = {32, 52, 56}

\* C5: once authentication_server(a) with a in {0, 1} and account_number(n)
\* with n < 2^31 have been applied, finish() reads back a and n after any
\* further calls of the other setters.
C5_AuthAndNumberReadBack ==
  /\ (authSet # <<>> /\ authSet[1] \in {{}, {0}}) =>
       SteamId_authentication_server(SteamIdBuilder_finish(id)) = authSet[1]
  /\ (numSet # <<>> /\ numSet[1] \subseteq 0 .. 30) =>
       SteamId_account_number(SteamIdBuilder_finish(id)) = numSet[1]

\* Both were applied with non-zero values and then another setter changed
\* the builder.
C5_Witness ==
  /\ authSet = <<{0}>>
  /\ numSet = <<FromNat(15344052)>>
  /\ op \in {"universe", "instance", "account_type", "account_type_preserve_bits"}
  /\ id # before
  /\ calls = 3

\* C6: authentication_server(v) gives the previous value with bit 0 set when
\* v >= 1 and with bit 0 cleared when v = 0.
C6_AuthServerClamp ==
  op = "authentication_server" =>
    /\ arg[2] # {} => id = before \cup {0}
    /\ arg[2] = {} => id = before \ {0}

\* authentication_server was called with an even value above 1 and set the bit.
C6_Witness ==
  /\ op = "authentication_server"
  /\ 0 \notin arg[2]
  /\ arg[2] # {}
  /\ 0 \notin before
  /\ 0 \in id

\* C7: account_number(v) leaves v mod 2^31 in the account number field for
\* every 64-bit v; the bits of v from bit 31 up reach no field.
C7_AccountNumberTruncates ==
  op = "account_number" =>
    /\ Field(id, 1, 31) = arg[2] \cap (0 .. 30)
    /\ SteamId_account_number(SteamIdBuilder_finish(id)) = arg[2] \cap (0 .. 30)
    /\ Outside(id, 1, 31) = Outside(before, 1, 31)

\* account_number(2^63 + 2^31 - 1) on a builder with account number 0.
C7_Witness ==
  /\ op = "account_number"
  /\ arg[2] = (0 .. 30) \cup {63}
  /\ Field(before, 1, 31) = {}
  /\ Field(id, 1, 31) = 0 .. 30
  /\ 63 \notin id

----------------------------------------------------------------------------
(* Properties of the parser. *)

\* Decimal numerals and their order, digit by digit.
IsDecimal(s) == s # <<>> /\ \A i \in 1 .. Len(s) : s[i] \in Digits
RECURSIVE StripZeros(_)
StripZeros(s) ==
  IF s # <<>> /\ Head(s) = "0" THEN StripZeros(Tail(s)) ELSE s
\* The decimal numeral s has a value of at least that of the numeral t.
DecAtLeast(s, t) ==
  /\ IsDecimal(s)
  /\ LET x == StripZeros(s)
         y == StripZeros(t)
         differ == {i \in 1 .. Len(x) : x[i] # y[i]}
     IN \/ Len(x) > Len(y)
        \/ /\ Len(x) = Len(y)
           /\ \/ differ = {}
              \/ DigitVal(x[SetMin(differ)]) > DigitVal(y[SetMin(differ)])

\* The colon-separated fields after the prefix "STEAM_", <<>> without it.
Steam2Fields(s) ==
  IF Len(s) >= 6 /\ SubSeq(s, 1, 6) = STEAM_
    THEN str_split(SubSeq(s, 7, Len(s))) ELSE <<>>

\* The pairs <<spelling, value>> of the sample accounts.
SameIdPairs ==
  UNION {{<<sp, Id64Of(a, n)>> : sp \in Spellings(a, n)} :
           a \in AuthServers, n \in AccountNumbers}
\* 76561197990953833 and its four spellings.
ExampleId ==
  ParseUInt(<<"7", "6", "5", "6", "1", "1", "9", "7", "9", "9", "0", "9", "5", "3", "8", "3", "3">>, 64)[1]
ExampleSpellings == Spellings({0}, FromNat(15344052))

\* C8: for a in {0, 1} and n < 2^31 the inputs "STEAM_1:a:n", "STEAM_0:a:n",
\* "[U:1:2n+a]" and the decimal numeral of 76561197960265728 + 2n + a all
\* parse to the identifier 76561197960265728 + 2n + a; for a = 1 and
\* n = 15344052 that is 76561197990953833.
C8_SpellingsParseToSameId ==
  result # <<>> =>
    /\ \A p \in SameIdPairs : input = p[1] => result = Ok(p[2])
    /\ input \in ExampleSpellings =>
         (IsOk(result) /\ SteamIdBuilder_finish(result[2]) = ExampleId)

\* "[U:1:30688105]" was parsed to 76561197990953833.
C8_Witness ==
  /\ input = Steam3Str(<<"U">>, <<"1">>, <<"3", "0", "6", "8", "8", "1", "0", "5">>)
  /\ IsOk(result)
  /\ SteamIdBuilder_finish(result[2]) = ExampleId

\* C9: an input accepted by the SteamId2 parser never has universe()
\* Unspecified: a universe field that decodes to Unspecified is read as Public.
C9_Steam2NeverUnspecified ==
  (IsOk(result) /\ str_trim(input)[1] = "S") =>
    SteamId_universe(SteamIdBuilder_finish(result[2])) # "Unspecified"

\* C10 as stated: for "STEAM_u:a:n" with u a decimal in 0..255, a decimal
\* a >= 2 gives Invalid(AuthServer), a decimal a < 2 with a decimal n >= 2^31
\* gives Invalid(AccountNumber), and no input with a >= 2 or n >= 2^31 is
\* accepted.
Steam2RangeErrors(s) ==
  LET f == Steam2Fields(s)
      big_a == DecAtLeast(f[2], <<"2">>)
      big_n == DecAtLeast(f[3], <<"2", "1", "4", "7", "4", "8", "3", "6", "4", "8">>)
  IN Len(f) = 3 =>
       /\ (big_a \/ big_n) => ~IsOk(result)
       /\ (IsDecimal(f[1]) /\ ~DecAtLeast(f[1], <<"2", "5", "6">>)) =>
            /\ big_a => result = Invalid("AuthServer")
            /\ (IsDecimal(f[2]) /\ ~big_a /\ big_n) =>
                 result = Invalid("AccountNumber")

C10_Steam2RangesAreErrors ==
  result # <<>> => Steam2RangeErrors(str_trim(input))

\* C10, amended: the same for inputs of at most 32 bytes after trimming; a
\* longer input gives UknownFormat whatever its fields are.
C10_Steam2RangesAreErrorsUpTo32Bytes ==
  result # <<>> =>
    /\ ByteLen(str_trim(input)) <= 32 => Steam2RangeErrors(str_trim(input))
    /\ ByteLen(str_trim(input)) > 32 => result = UknownFormat

\* "STEAM_0:1:2147483648" was rejected for its account number.
C10_Witness ==
  /\ str_trim(input) = Steam2Str(<<"0">>, <<"1">>, <<"2", "1", "4", "7", "4", "8", "3", "6", "4", "8">>)
  /\ result = Invalid("AccountNumber")

\* The trimmed input starts with the character c.
StartsWith(c) == str_trim(input) # <<>> /\ str_trim(input)[1] = c

\* C11: every input accepted by the SteamId2 parser yields an identifier
\* whose account_type() is Individual and whose Instance field is 1 (Desktop,
\* chat type None), whatever the other three fields are.
C11_Steam2IsIndividualDesktop ==
  (IsOk(result) /\ StartsWith("S")) =>
    LET sid == SteamIdBuilder_finish(result[2]) IN
    /\ SteamId_account_type(sid) = <<"Individual">>
    /\ Field(sid, 52, 55) = FromNat(1)
    /\ SteamId_instance(sid) = <<"Desktop", "None">>
    /\ Field(sid, 32, 51) = FromNat(1)

\* "STEAM_5:1:2147483647" was accepted: universe RC, authentication server
\* 1, the largest account number.
C11_Witness ==
  /\ str_trim(input) = Steam2Str(<<"5">>, <<"1">>, ToDecimal(0 .. 30))
  /\ IsOk(result)
  /\ SteamId_universe(SteamIdBuilder_finish(result[2])) = "RC"
  /\ SteamId_account_number(SteamIdBuilder_finish(result[2])) = 0 .. 30

\* The colon-separated fields between "[" and "]", <<>> without the brackets.
Steam3Fields(s) ==
  IF Len(s) >= 2 /\ s[1] = "[" /\ s[Len(s)] = "]"
    THEN str_split(SubSeq(s, 2, Len(s) - 1)) ELSE <<>>
\* A universe field that is a decimal numeral of 0..255.
IsUniverseField(f) == IsDecimal(f) /\ ~DecAtLeast(f, <<"2", "5", "6">>)
\* 2^32 and 2^64
Dec2Pow32 == <<"4", "2", "9", "4", "9", "6", "7", "2", "9", "6">>
Dec2Pow64 ==
  <<"1", "8", "4", "4", "6", "7", "4", "4", "0", "7", "3", "7", "0", "9", "5", "5", "1", "6", "1", "6">>
\* The decimal numeral p is odd.
DecIsOdd(p) == p[Len(p)] \in {"1", "3", "5", "7", "9"}

\* The accepted half of C12: "[c:u:p]" with p <= 2^32 - 1 is accepted with
\* authentication_server() = p mod 2 and account_number() = p div 2.
Steam3PackedAccepted(f) ==
  /\ IsOk(result)
  /\ LET sid == SteamIdBuilder_finish(result[2])
         a == SteamId_authentication_server(sid)
         n == SteamId_account_number(sid)
     IN /\ a = (IF DecIsOdd(f[3]) THEN {0} ELSE {})
        /\ Add(Shl64(n, 1), a) = ParseUInt(f[3], 64)[1]

\* C12: for "[c:u:p]" with a valid account-type character c and universe u,
\* a decimal p <= 2^32 - 1 is accepted with authentication_server() = p mod 2
\* and account_number() = p div 2, and every decimal p > 2^32 - 1 gives the
\* error Invalid(AccountNumber).
C12_Steam3PackedField ==
  result # <<>> =>
    LET f == Steam3Fields(str_trim(input)) IN
    (/\ Len(f) = 3
     /\ Len(f[1]) = 1 /\ f[1][1] \in Letters
     /\ IsUniverseField(f[2])
     /\ IsDecimal(f[3])) =>
       IF DecAtLeast(f[3], Dec2Pow32)
         THEN result = Invalid("AccountNumber")
         ELSE Steam3PackedAccepted(f)

\* The letters that name an account type.
AccountTypeLetters == {"I", "U", "M", "G", "A", "P", "C", "g", "L", "T", "c", "a"}

\* For "[c:u:p]" with u in 0..255 and a decimal p <= 2^32 - 1: a field c of
\* one ASCII letter is accepted, with account type Invalid when the letter
\* names no type, and any other field c gives Invalid(AccountType).
Steam3AccountTypeField(s) ==
  LET f == Steam3Fields(s) IN
  (/\ Len(f) = 3
   /\ IsUniverseField(f[2])
   /\ IsDecimal(f[3]) /\ ~DecAtLeast(f[3], Dec2Pow32)) =>
     IF Len(f[1]) = 1 /\ f[1][1] \in Letters
       THEN /\ IsOk(result)
            /\ f[1][1] \notin AccountTypeLetters =>
                 SteamId_account_type(SteamIdBuilder_finish(result[2])) = <<"Invalid">>
       ELSE result = Invalid("AccountType")

\* C13 as stated: for a SteamId3 input whose universe and packed fields are
\* valid, the account-type field is accepted only if it is exactly one ASCII
\* letter; an empty field, a field of two or more characters, a digit or any
\* other character gives Invalid(AccountType); a letter outside
\* {I,U,M,G,A,P,C,g,L,T,c,a} is accepted with account type Invalid.
C13_Steam3AccountTypeChar ==
  result # <<>> => Steam3AccountTypeField(str_trim(input))

\* C13, amended: the same for inputs of at most 32 bytes after trimming; a
\* longer input gives UknownFormat whatever its account-type field is.
C13_Steam3AccountTypeCharUpTo32Bytes ==
  result # <<>> =>
    /\ ByteLen(str_trim(input)) <= 32 => Steam3AccountTypeField(str_trim(input))
    /\ ByteLen(str_trim(input)) > 32 => result = UknownFormat

\* "[0:1:4294967295]" was rejected for its account type: the universe and
\* the packed number are valid, the account-type field is a digit.
C13_Witness ==
  /\ str_trim(input) = Steam3Str(<<"0">>, <<"1">>, <<"4", "2", "9", "4", "9", "6", "7", "2", "9", "5">>)
  /\ result = Invalid("AccountType")

\* C14: a SteamId3 input is accepted only if it ends with "]" and has exactly
\* three colon-separated fields between the brackets; a "["-initial input
\* with four or more fields, such as "[U:1:3:4]", is rejected.
C14_Steam3ExactlyThreeFields ==
  (result # <<>> /\ StartsWith("[")) =>
    LET s == str_trim(input) IN
    /\ IsOk(result) => (s[Len(s)] = "]" /\ Len(Steam3Fields(s)) = 3)
    /\ Len(Steam3Fields(s)) >= 4 => ~IsOk(result)

\* C15: an input whose first character is "S" is accepted only if it is the
\* prefix "STEAM_" followed by exactly three colon-separated decimal fields;
\* "SXXXXX1:1:1" and "STEAM_1:1:1:9" are rejected.
C15_Steam2PrefixAndThreeFields ==
  (IsOk(result) /\ StartsWith("S")) =>
    LET f == Steam2Fields(str_trim(input)) IN
    /\ Len(f) = 3
    /\ \A i \in 1 .. 3 : IsDecimal(f[i])

\* C16: an input that is empty or only whitespace fails with Empty; a trimmed
\* non-empty input whose first character is not an ASCII digit, "S" or "["
\* fails with UknownFormat; a "["-initial input that does not end with "]"
\* fails with UknownFormat; and whitespace around an input never changes the
\* result of parsing it.
C16_FormatDispatch ==
  result # <<>> =>
    LET s == str_trim(input) IN
    /\ (\A i \in 1 .. Len(input) : input[i] \in Whitespace) => result = Empty
    /\ (s # <<>> /\ s[1] \notin Digits \cup {"S", "["}) => result = UknownFormat
    /\ (s # <<>> /\ s[1] = "[" /\ s[Len(s)] # "]") => result = UknownFormat
    /\ result = SteamIdBuilder_from_str(s)

\* " -1 " failed with UknownFormat, as "-1" does.
C16_Witness ==
  /\ input = <<" ", "-", "1", " ">>
  /\ result = UknownFormat

\* The numeral s without its leading zeros, "0" for zero.
Canonical(s) == IF StripZeros(s) = <<>> THEN <<"0">> ELSE StripZeros(s)

\* A digit-initial input s: a decimal numeral of at most 2^64 - 1 parses to
\* exactly that number, anything else is Invalid(SteamId64).
SteamId64Result(s) ==
  IF IsDecimal(s) /\ ~DecAtLeast(s, Dec2Pow64)
    THEN /\ IsOk(result)
         /\ ToDecimal(SteamIdBuilder_finish(result[2])) = Canonical(s)
    ELSE result = Invalid("SteamId64")

\* C17 as stated: for every trimmed input that begins with an ASCII digit, a
\* decimal numeral of value at most 2^64 - 1, whatever its length, parses to
\* the identifier with exactly that 64-bit value, and every other input
\* gives Invalid(SteamId64).
C17_SteamId64Verbatim ==
  (result # <<>> /\ str_trim(input) # <<>> /\ str_trim(input)[1] \in Digits) =>
    SteamId64Result(str_trim(input))

\* C17, amended: the same for inputs of at most 32 bytes after trimming; a
\* longer digit-initial input gives UknownFormat.
C17_SteamId64VerbatimUpTo32Bytes ==
  (result # <<>> /\ str_trim(input) # <<>> /\ str_trim(input)[1] \in Digits) =>
    IF ByteLen(str_trim(input)) <= 32
      THEN SteamId64Result(str_trim(input))
      ELSE result = UknownFormat

\* "0" was parsed to the identifier 0: no default of new() was applied.
C17_Witness ==
  /\ str_trim(input) = <<"0">>
  /\ result = Ok({})

\* An unsigned numeral as from_str of the integer types reads it: decimal
\* digits after an optional "+", with a value below the numeral limit.
NumeralBelow(f, limit) ==
  LET ds == IF f # <<>> /\ f[1] = "+" THEN Tail(f) ELSE f
  IN IsDecimal(ds) /\ ~DecAtLeast(ds, limit)
Dec2Pow31 == <<"2", "1", "4", "7", "4", "8", "3", "6", "4", "8">>
\* The number of FALSE entries of a sequence of booleans.
Invalids(oks) == Cardinality({i \in 1 .. Len(oks) : ~oks[i]})

\* C18: when a SteamId2 or SteamId3 input (of at most 32 bytes) has three
\* fields of which more than one is invalid, the error returned is the one of
\* the leftmost invalid field in the text: for SteamId2 universe, then
\* authentication server, then account number; for SteamId3 account type,
\* then universe, then the packed number.
C18_LeftmostFieldError ==
  (result # <<>> /\ ByteLen(str_trim(input)) <= 32) =>
    LET f2 == Steam2Fields(str_trim(input))
        f3 == Steam3Fields(str_trim(input))
    IN
    /\ Len(f2) = 3 =>
         LET oks == <<NumeralBelow(f2[1], <<"2", "5", "6">>),
                      NumeralBelow(f2[2], <<"2">>),
                      NumeralBelow(f2[3], Dec2Pow31)>>
         IN Invalids(oks) >= 2 =>
              result = (IF ~oks[1] THEN Invalid("Universe") ELSE Invalid("AuthServer"))
    /\ Len(f3) = 3 =>
         LET oks == <<Len(f3[1]) = 1 /\ f3[1][1] \in Letters,
                      NumeralBelow(f3[2], <<"2", "5", "6">>),
                      NumeralBelow(f3[3], Dec2Pow32)>>
         IN Invalids(oks) >= 2 =>
              result = (IF ~oks[1] THEN Invalid("AccountType") ELSE Invalid("Universe"))

\* C19: every SteamId2 input (prefix "STEAM_") and every bracketed SteamId3
\* input (of at most 32 bytes) that supplies fewer than three colon-separated
\* sub-fields, such as "STEAM_", "STEAM_1:1", "[]" and "[U:]", returns the
\* error TooShort.
C19_MissingFieldsAreTooShort ==
  (result # <<>> /\ ByteLen(str_trim(input)) <= 32) =>
    /\ Len(Steam2Fields(str_trim(input))) \in {1, 2} => result = TooShort
    /\ Len(Steam3Fields(str_trim(input))) \in {1, 2} => result = TooShort

\* C20: from_str is total and never aborts: for every input, whatever its
\* length and characters, the call returns either a builder or exactly one
\* ParseError; no out-of-range slice, arithmetic overflow or other panic is
\* reachable.
C20_ParserTotal ==
  op = "from_str" =>
    \/ IsOk(result) /\ Len(result) = 2 /\ result[2] \subseteq Bits64
    \/ result \in ParseError

\* "STEAM" followed by a two-byte character and "1:1:1": byte offset 6 is
\* inside the character, and the call returned UknownFormat.
C20_Witness ==
  /\ input = <<"S", "T", "E", "A", "M", EAcute, "1", ":", "1", ":", "1">>
  /\ result = UknownFormat

----------------------------------------------------------------------------
(* Properties of the formatter. *)

\* The identifier was rendered in the format fmt; the rendering was parsed.
Rendered(fmt) == op = "fmt" /\ arg = <<"IdFormat", fmt>>
Reparsed(fmt) == op = "from_str" /\ arg = <<"IdFormat", fmt>>

\* C21: for every identifier x the SteamId3 rendering is "[c:u:p]" with
\* p = authentication_server(x) + 2 * account_number(x), the low 32 bits of
\* x, and parsing the rendering succeeds with the same
\* authentication_server(), account_number() and universe() as x.
C21_SteamId3RoundTrip ==
  /\ Rendered("SteamId3") =>
       LET f == Steam3Fields(input)
           x == SteamIdBuilder_finish(id)
       IN /\ Len(f) = 3
          /\ f[3] = ToDecimal(Add(Shl64(SteamId_account_number(x), 1),
                                   SteamId_authentication_server(x)))
          /\ f[3] = ToDecimal(x \cap (0 .. 31))
  /\ Reparsed("SteamId3") =>
       /\ IsOk(result)
       /\ LET x == SteamIdBuilder_finish(before)
              y == SteamIdBuilder_finish(result[2])
          IN /\ SteamId_authentication_server(y) = SteamId_authentication_server(x)
             /\ SteamId_account_number(y) = SteamId_account_number(x)
             /\ SteamId_universe(y) = SteamId_universe(x)

\* 2^64 - 1 was rendered as "[I:0:4294967295]" and parsed back with
\* authentication server 1 and account number 2^31 - 1.
C21_Witness ==
  /\ Reparsed("SteamId3")
  /\ before = Bits64
  /\ input = Steam3Str(<<"I">>, <<"0">>, <<"4", "2", "9", "4", "9", "6", "7", "2", "9", "5">>)
  /\ IsOk(result)
  /\ SteamId_account_number(result[2]) = 0 .. 30

\* C22: for every identifier x the SteamId2 rendering is "STEAM_u:a:n" with
\* u the numeric value (0..5) of x's decoded universe, a its authentication
\* server and n its account number; the SteamId2Legacy rendering is the same
\* with u = 0; the parser accepts both, and when x's universe is Public both
\* parse to one identifier (the default identity with x's low 32 bits).
C22_SteamId2Renderings ==
  LET x == SteamIdBuilder_finish(IF op = "from_str" THEN before ELSE id)
      a == ToDecimal(SteamId_authentication_server(x))
      n == ToDecimal(SteamId_account_number(x))
      u == ToDecimal(FromNat(Universe_to_u8(SteamId_universe(x))))
  IN
  /\ Rendered("SteamId2") =>
       (input = Steam2Str(u, a, n) /\ u \in {<<d>> : d \in {"0", "1", "2", "3", "4", "5"}})
  /\ Rendered("SteamId2Legacy") => input = Steam2Str(<<"0">>, a, n)
  /\ (Reparsed("SteamId2") \/ Reparsed("SteamId2Legacy")) =>
       /\ IsOk(result)
       /\ SteamId_universe(x) = "Public" =>
            result = Ok(BitOr(SteamIdBuilder_new, x \cap (0 .. 31)))

\* 76561197990953833 was rendered as "STEAM_0:1:15344052", which parsed back
\* to 76561197990953833.
C22_Witness ==
  /\ Reparsed("SteamId2Legacy")
  /\ before = ExampleId
  /\ input = Steam2Str(<<"0">>, <<"1">>, <<"1", "5", "3", "4", "4", "0", "5", "2">>)
  /\ result = Ok(ExampleId)

\* C23: for every identifier x the Url rendering is
\* "http://steamcommunity.com/gid/" and x's SteamId3 rendering when x's
\* account type field decodes to Clan (7), and
\* "http://steamcommunity.com/profiles/" and the decimal value of x for every
\* other value of the field; every format renders every x.
C23_UrlRendering ==
  /\ Rendered("Url") =>
       LET x == SteamIdBuilder_finish(id) IN
       IF Field(x, 52, 55) = FromNat(7)
         THEN input = <<"h", "t", "t", "p", ":", "/", "/", "s", "t", "e", "a", "m", "c", "o", "m", "m", "u", "n", "i", "t", "y", ".", "c", "o", "m", "/", "g", "i", "d", "/">>
                        \o IdFormat_to_string("SteamId3", x)
         ELSE input = <<"h", "t", "t", "p", ":", "/", "/", "s", "t", "e", "a", "m", "c", "o", "m", "m", "u", "n", "i", "t", "y", ".", "c", "o", "m", "/", "p", "r", "o", "f", "i", "l", "e", "s", "/">>
                        \o ToDecimal(x)
  /\ op = "fmt" => (input # <<>> /\ \A i \in 1 .. Len(input) : Utf8Len(input[i]) = 1)

\* 103582791464489035, a Clan, was rendered as
\* "http://steamcommunity.com/gid/[g:1:34967627]".
C23_Witness ==
  /\ Rendered("Url")
  /\ id = ParseUInt(<<"1", "0", "3", "5", "8", "2", "7", "9", "1", "4", "6", "4", "4", "8", "9", "0", "3", "5">>, 64)[1]
  /\ input = <<"h", "t", "t", "p", ":", "/", "/", "s", "t", "e", "a", "m", "c", "o", "m", "m", "u", "n", "i", "t", "y", ".", "c", "o", "m", "/", "g", "i", "d", "/", "[", "g", ":", "1", ":", "3", "4", "9", "6", "7", "6", "2", "7", "]">>

----------------------------------------------------------------------------
(* Properties of the field value types. *)

\* C24 as stated: for every value x of Universe, ChatType, Instance (each kind
\* with each chat type) and AccountType (Chat(c) for each chat type c
\* included), from_numeric(to_numeric(x)) = x.
C24_NumericRoundTrip ==
  op = "from_numeric" => result = arg

\* C24, amended: from_numeric(to_numeric(x)) = x for every Universe, ChatType
\* and Instance and for every AccountType other than Chat(c); every Chat(c)
\* has the number 8, which decodes to Chat(ClanChat).
C24_NumericRoundTripButChat ==
  op = "from_numeric" =>
    IF arg[1] = "AccountType" /\ arg[2][1] = "Chat"
      THEN id = FromNat(8) /\ result = <<"AccountType", <<"Chat", "ClanChat">>>>
      ELSE result = arg

\* Web(Lobby) went to 4 + 2 * 4096 = 8196 and back.
C24_Witness ==
  /\ op = "from_numeric"
  /\ arg = <<"Instance", <<"Web", "Lobby">>>>
  /\ id = {2, 13}
  /\ result = arg

\* C25: for every 32-bit v, Instance::from(v) looks only at the low 20 bits:
\* the chat type is read from bits 12..19 (1 MatchMakingLobby, 2 Lobby,
\* 4 ClanChat, anything else None) and the kind from bits 0..11 (0 None,
\* 1 Desktop, 2 Console, 4 Web, anything else Desktop), the decoded chat type
\* being kept in the defaulted case.
C25_InstanceDecoding ==
  op = "Instance_from" =>
    LET kind == Field(arg[2], 0, 11)
        chat == Field(arg[2], 12, 19)
    IN result =
         <<"Instance",
           <<CASE kind = {} -> "None"
               [] kind = {0} -> "Desktop"
               [] kind = {1} -> "Console"
               [] kind = {2} -> "Web"
               [] OTHER -> "Desktop",
             CASE chat = {0} -> "MatchMakingLobby"
               [] chat = {1} -> "Lobby"
               [] chat = {2} -> "ClanChat"
               [] OTHER -> "None">>>>

\* 3 + 2 * 4096 with bits 20..31 set was decoded to Desktop(Lobby).
C25_Witness ==
  /\ op = "Instance_from"
  /\ arg = <<"u32", {0, 1, 13} \cup (20 .. 31)>>
  /\ result = <<"Instance", <<"Desktop", "Lobby">>>>

\* C26: for every n in 0..255, numeric(from_char(to_char(from_numeric(n))))
\* is n for n in 0..10 other than 9, and 0 for n = 9 and n > 10; and every
\* account type other than ConsoleUser and Invalid has a character that maps
\* back to a type of the same numeric value.
C26_NumericCharRoundTrip ==
  op = "numeric" =>
    /\ arg[1] = "u8" =>
         id = FromNat(IF arg[2] \in (0 .. 10) \ {9} THEN arg[2] ELSE 0)
    /\ (arg[1] = "AccountType" /\ arg[2] \notin {<<"ConsoleUser">>, <<"Invalid">>}) =>
         id = FromNat(AccountType_to_u8(arg[2]))

\* 9 was decoded to ConsoleUser, printed as "I", read as Invalid: 0.
C26_Witness ==
  /\ op = "numeric"
  /\ arg = <<"u8", 9>>
  /\ input = <<"I">>
  /\ result = <<"AccountType", <<"Invalid">>>>
  /\ id = {}

----------------------------------------------------------------------------
(* Properties of chains of setter calls. *)

\* C27: for every builder b and every account type t, Chat(c) for each chat
\* type c included, b.account_type(t).finish().account_type() = t; the
\* letters 'L', 'T' and 'c' read back as Chat(Lobby), Chat(MatchMakingLobby)
\* and Chat(ClanChat).
C27_AccountTypeReadBack ==
  op = "account_type" =>
    LET got == SteamId_account_type(SteamIdBuilder_finish(id)) IN
    /\ got = IntoAccountType(arg)
    /\ arg[1] = "AccountType" => got = arg[2]
    /\ arg = <<"char", "L">> => got = <<"Chat", "Lobby">>
    /\ arg = <<"char", "T">> => got = <<"Chat", "MatchMakingLobby">>
    /\ arg = <<"char", "c">> => got = <<"Chat", "ClanChat">>

\* account_type(Chat(Lobby)) on a builder whose chat bits said
\* MatchMakingLobby reads back as Chat(Lobby).
C27_Witness ==
  /\ op = "account_type"
  /\ arg = <<"AccountType", <<"Chat", "Lobby">>>>
  /\ Field(before, 44, 51) = FromNat(1)
  /\ SteamId_account_type(SteamIdBuilder_finish(id)) = <<"Chat", "Lobby">>

\* The numbers 0, 1, 2 and 4: the numeric values of the instance kinds and
\* of the chat types.
KindNumbers == {FromNat(k) : k \in {0, 1, 2, 4}}

\* C28: every builder value reachable from SteamIdBuilder::new() by setter
\* calls with arbitrary arguments has its Universe field in 0..5, its
\* AccountType field in 0..10, Instance bits 0..11 in {0, 1, 2, 4} and chat
\* type bits 12..19 in {0, 1, 2, 4}; so encoding the decoded universe() and
\* instance() again gives the stored Universe and Instance fields.
C28_CanonicalFields ==
  LET sid == SteamIdBuilder_finish(id) IN
  /\ Field(id, 56, 63) \in {FromNat(k) : k \in 0 .. 5}
  /\ Field(id, 52, 55) \in {FromNat(k) : k \in 0 .. 10}
  /\ Field(id, 32, 43) \in KindNumbers
  /\ Field(id, 44, 51) \in KindNumbers
  /\ FromNat(Universe_to_u8(SteamId_universe(sid))) = Field(id, 56, 63)
  /\ Instance_to_u32(SteamId_instance(sid)) = Field(id, 32, 51)

\* After account_number(2^64 - 1), instance(2^32 - 1) stored Desktop(None).
C28_Witness ==
  /\ op = "instance"
  /\ arg = <<"u32", Bits32>>
  /\ numSet = <<Bits64>>
  /\ Field(id, 32, 51) = FromNat(1)
  /\ Field(id, 1, 31) = 0 .. 30

\* The six setters, and the call of one of them on the builder b with the
\* argument a = <<kind, value>>.
Setters ==
  {"authentication_server", "account_number", "account_type",
   "account_type_preserve_bits", "instance", "universe"}
Apply(setter, b, a) ==
  CASE setter = "authentication_server" -> SteamIdBuilder_authentication_server(b, a[2])
    [] setter = "account_number" -> SteamIdBuilder_account_number(b, a[2])
    [] setter = "account_type" -> SteamIdBuilder_account_type(b, a)
    [] setter = "account_type_preserve_bits" -> SteamIdBuilder_account_type_preserve_bits(b, a)
    [] setter = "instance" -> SteamIdBuilder_instance(b, a)
    [] setter = "universe" -> SteamIdBuilder_universe(b, a)

\* The calls to compare the call just made with.
OtherCalls ==
  {<<f, <<"u64", v>>>> : f \in {"authentication_server", "account_number"},
                         v \in U64Args}
  \cup {<<f, a>> : f \in {"account_type", "account_type_preserve_bits"},
                    a \in AccountTypeArgs}
  \cup {<<"instance", a>> : a \in InstanceArgs}
  \cup {<<"universe", a>> : a \in UniverseArgs}

\* The call c after the call just made gives the same value as the call just
\* made after c, both on the builder as it was before.
Commutes(c) ==
  Apply(c[1], id, c[2]) = Apply(op, Apply(c[1], before, c[2]), arg)
\* The call just made and c are calls of f and g, in either order.
PairOf(c, f, g) == {op, c[1]} = {f, g} /\ op # c[1]
\* The account type handed to account_type, in the call just made or in c.
TypeOf(c) == IntoAccountType(IF op = "account_type" THEN arg ELSE c[2])

\* What C29 says of every pair but the two that write the type field or the
\* instance field twice: applying the call just made a second time changes
\* nothing, and calls of two different setters commute.
IdempotentAndCommuting ==
  /\ Apply(op, id, arg) = id
  /\ \A c \in OtherCalls :
       (/\ op # c[1]
        /\ ~PairOf(c, "account_type", "instance")
        /\ ~PairOf(c, "account_type", "account_type_preserve_bits")) =>
          Commutes(c)

\* C29 as stated: any two of authentication_server, account_number, instance,
\* universe and account_type_preserve_bits commute, account_type commutes
\* with authentication_server, account_number and universe, a setter applied
\* twice with one argument gives what it gives once, and the only
\* order-dependent pair is account_type with instance, whose two orders
\* differ when the type is not Invalid or Individual.
C29_SettersCommute ==
  op \in Setters =>
    /\ IdempotentAndCommuting
    /\ \A c \in OtherCalls :
         /\ PairOf(c, "account_type", "account_type_preserve_bits") => Commutes(c)
         /\ (/\ PairOf(c, "account_type", "instance")
             /\ TypeOf(c)[1] \notin {"Invalid", "Individual"}) => ~Commutes(c)

\* The instance value account_type(t) leaves behind for a type t other than
\* Invalid and Individual.
ResetInstance(t) ==
  IF t[1] = "Chat" THEN FromNat(ChatType_to_u8(t[2]) * 4096) ELSE {}

\* C29, amended: the same, with two order-dependent pairs.  account_type(t)
\* and instance(i) give different values in the two orders exactly when t is
\* not Invalid or Individual and i is stored as something else than what
\* account_type(t) leaves in the Instance field; account_type(t) and
\* account_type_preserve_bits(t2) give different values exactly when t and
\* t2 have different numeric values.
C29_SettersCommuteButTwoPairs ==
  op \in Setters =>
    /\ IdempotentAndCommuting
    /\ \A c \in OtherCalls :
         /\ PairOf(c, "account_type", "account_type_preserve_bits") =>
              (Commutes(c) <=>
                 AccountType_to_u8(IntoAccountType(arg))
                   = AccountType_to_u8(IntoAccountType(c[2])))
         /\ PairOf(c, "account_type", "instance") =>
              LET i == IF op = "instance" THEN arg ELSE c[2] IN
              (Commutes(c) <=>
                 \/ TypeOf(c)[1] \in {"Invalid", "Individual"}
                 \/ Instance_to_u32(IntoInstance(i)) = ResetInstance(TypeOf(c)))

\* account_number(2^64 - 1) was called on a builder with every bit set: it
\* commutes with the calls of the other setters, and a second call changes
\* nothing.
C29_Witness ==
  /\ op = "account_number"
  /\ arg = <<"u64", Bits64>>
  /\ before = Bits64
  /\ id = Bits64
  /\ \A c \in OtherCalls : c[1] # op => Commutes(c)

====
